---- MODULE Spec2Model ----
(***************************************************************************)
(* Model of the SAM3 model server of osml-models:                          *)
(*   process_gdal_image_to_rgb  (band selection, NoData masking, scaling)  *)
(*   mask_to_polygon            (contour selection, ring closing)          *)
(*   sam3_outputs_to_geojson    (shape reconciliation, on-device filter,   *)
(*                               transfer, pooled extraction, assembly)    *)
(*   predict                    (the /invocations handler)                 *)
(* and of the functions other callers reach directly: mask_to_polygon,     *)
(* detect_to_feature and the failure model's trigger_behavior_by_color.    *)
(*                                                                         *)
(* Floating pixel values are fixed-point integers in units of 1/FScale.    *)
(* Polygon coordinates are integers in units of half a pixel, so that the  *)
(* +0.5 pixel-centre offset of pixel index x is 2x+1.                      *)
(***************************************************************************)
EXTENDS Integers, Sequences, FiniteSets, TLC

VARIABLES
    \* ---- inputs of one request (fixed by the environment) ----
    parseable,      \* can GDAL parse the request body
    raster,         \* the decoded dataset: [dtype, bands]
    DEVICE,         \* "cuda" or "cpu" (module constant, set at start-up)
    MAX_WORKERS,    \* size of the mask-to-polygon worker pool (module constant)
    output,         \* what the inference engine returns: [masks, boxes, scores]
    inferOk,        \* does processor.set_image / set_text_prompt succeed
    filterFault,    \* step of the on-device filter block that fails operationally
    \* ---- predict ----
    pc,             \* position in predict
    vsimem,         \* does /vsimem/<id> exist
    gdal_dataset,   \* "None" or "open"
    image_array,    \* result of process_gdal_image_to_rgb, or NoImage
    inferenceRuns,  \* number of inference runs started
    response,       \* [status, body] once predict has returned, else NoResponse
    \* ---- sam3_outputs_to_geojson ----
    masks, boxes, scores, num_detections,
    tasks,          \* pool: task index -> "queued" | "running" | "done" | "failed" | "cancelled"
    finishOrder,    \* pool: task indexes in the order the workers finished them
    polygons,       \* the list of extracted polygons (NoPolygon for None)
    result,         \* the FeatureCollection returned, or NoResult
    raised,         \* exception leaving sam3_outputs_to_geojson, or "None"
    syncs,          \* number of torch.cuda.synchronize() calls
    onHost,         \* have boxes, scores and masks been transferred to the host
    log,            \* messages logged by sam3_outputs_to_geojson
    \* ---- direct calls of a single function ----
    arg,            \* the function called and its arguments, or NoArg
    ret,            \* [done, raised, value] of that call
    \* ---- one server process over several calls and requests ----
    proc            \* logging handlers and level, uuids drawn, collections returned

vars == <<parseable, raster, DEVICE, MAX_WORKERS, output, inferOk, filterFault,
          pc, vsimem, gdal_dataset, image_array, inferenceRuns, response,
          masks, boxes, scores, num_detections, tasks, finishOrder, polygons,
          result, raised, syncs, onHost, log, arg, ret, proc>>

\* what no step of predict changes
inputVars == <<parseable, raster, DEVICE, MAX_WORKERS, output, inferOk, filterFault,
               arg, ret, proc>>
configVars == <<parseable, raster, DEVICE, MAX_WORKERS, output, inferOk, filterFault>>
requestVars == <<pc, vsimem, gdal_dataset, image_array, inferenceRuns, response,
                 masks, boxes, scores, num_detections, tasks, finishOrder, polygons,
                 result, raised, syncs, onHost, log>>
tensorVars == <<masks, boxes, scores, num_detections>>
poolVars == <<tasks, finishOrder>>

\* ------------------------------------------------------------------------
\* Bounds of the model
\* ------------------------------------------------------------------------
MaxBands == 4
MaxPix == 2
MaxDet == 3
MaxRank == 4
MaxContours == 2

\* ------------------------------------------------------------------------
\* Program constants
\* ------------------------------------------------------------------------
UInt16Max == 65535
Int16Max == 32767
Int16Min == -32768
UInt8Max == 255
UInt8Mod == 256
RTolDen == 100000
ATolDen == 100000000
PoolThreshold == 2
MinContourLen == 3

\* one float unit is 1/FScale; chosen equal to rtol so that the tolerance of
\* np.isclose is one unit per unit of magnitude
FScale == RTolDen

Abs(x) == IF x < 0 THEN -x ELSE x
Min2(a, b) == IF a < b THEN a ELSE b
Max2(a, b) == IF a > b THEN a ELSE b
Range(s) == {s[i] : i \in 1..Len(s)}
SeqMax(s) == CHOOSE m \in Range(s) : \A x \in Range(s) : x <= m
SeqMin(s) == CHOOSE m \in Range(s) : \A x \in Range(s) : x >= m
Clip(x, lo, hi) == IF x < lo THEN lo ELSE IF x > hi THEN hi ELSE x

IsFloat(dtype) == dtype \in {"float32", "float64"}

\* ------------------------------------------------------------------------
\* process_gdal_image_to_rgb
\* ------------------------------------------------------------------------
NoNoData == [has |-> FALSE, val |-> 0]
NoData(v) == [has |-> TRUE, val |-> v]

\* np.isclose(a, b, rtol=1e-5, atol=1e-8): |a - b| <= atol + rtol * |b|
IsClose(a, b) ==
    Abs(a - b) <= (FScale \div (ATolDen \div RTolDen) + Abs(b)) \div RTolDen

\* nodata_mask for one pixel of a band
NoDataMatch(dtype, v, nodata_value) ==
    IF IsFloat(dtype) THEN IsClose(v, nodata_value) ELSE v = nodata_value

\* band count -> is it accepted
BandCountOkMut(num_bands) == num_bands >= 2
BandCountOk(num_bands) == num_bands >= 3 \/ num_bands = 1

\* image_array after channel selection: three pixel rows
SelectChannels(r) ==
    IF Len(r.bands) >= 3
    THEN [c \in 1..3 |-> r.bands[c].pix]
    ELSE [c \in 1..3 |-> r.bands[1].pix]

\* the bands whose NoData sentinel is applied, and the channel each is applied to
MaskedChannels(num_bands) == 1..Min2(3, num_bands)

MaskNoData(r, img) ==
    [c \in 1..3 |->
        IF c \in MaskedChannels(Len(r.bands)) /\ r.bands[c].nodata.has
        THEN [p \in 1..Len(img[c]) |->
                IF NoDataMatch(r.dtype, img[c][p], r.bands[c].nodata.val)
                THEN 0 ELSE img[c][p]]
        ELSE img[c]]

\* (v / max_val * 255).clip(0, 255).astype(uint8)
ScaleByMax(v, max_val) == Clip((v * UInt8Max) \div max_val, 0, UInt8Max)

ScaleUInt16Mut(v) == ScaleByMax(v, UInt16Max + 1)
ScaleUInt16(v) == ScaleByMax(v, UInt16Max)

\* int16 is shifted by the type minimum, then divided by np.iinfo(int16).max
ScaleInt16Mut(v) == ScaleByMax(v - Int16Min, UInt16Max)
ScaleInt16(v) == ScaleByMax(v - Int16Min, Int16Max)

AllValues(img) == UNION {Range(img[c]) : c \in 1..3}
SetMax(S) == CHOOSE m \in S : \A x \in S : x <= m
SetMin(S) == CHOOSE m \in S : \A x \in S : x >= m

\* the values the float range classification looks at
FloatRangeValuesMut(r, img) ==
    UNION {Range(r.bands[b].pix) : b \in 1..Len(r.bands)}
FloatRangeValues(r, img) == AllValues(img)

FloatClass(r, img) ==
    LET max_val == SetMax(FloatRangeValues(r, img))
        min_val == SetMin(FloatRangeValues(r, img))
    IN  IF max_val <= FScale /\ min_val >= 0 THEN "normalized"
        ELSE IF max_val <= UInt8Max * FScale /\ min_val >= 0 THEN "bounded"
        ELSE "raw"

\* per-band min-max stretch of the raw float branch
StretchBandMut(row) ==
    LET band_min == SeqMin(row)
        band_max == SeqMax(row)
    IN  IF band_max > band_min
        THEN [p \in 1..Len(row) |->
                Clip(((row[p] - band_min) * UInt8Max) \div (band_max - band_min),
                     0, UInt8Max)]
        ELSE [p \in 1..Len(row) |-> UInt8Max]
StretchBand(row) ==
    LET band_min == SeqMin(row)
        band_max == SeqMax(row)
    IN  IF band_max > band_min
        THEN [p \in 1..Len(row) |->
                Clip(((row[p] - band_min) * UInt8Max) \div (band_max - band_min),
                     0, UInt8Max)]
        ELSE [p \in 1..Len(row) |-> 0]

ScaleFloat(r, img) ==
    LET cls == FloatClass(r, img)
    IN  IF cls = "normalized"
        THEN [c \in 1..3 |-> [p \in 1..Len(img[c]) |->
                Clip((img[c][p] * UInt8Max) \div FScale, 0, UInt8Max)]]
        ELSE IF cls = "bounded"
        THEN [c \in 1..3 |-> [p \in 1..Len(img[c]) |->
                Clip(img[c][p] \div FScale, 0, UInt8Max)]]
        ELSE [c \in 1..3 |-> StretchBand(img[c])]

ScaleToUInt8(r, img) ==
    IF r.dtype = "uint8" THEN img
    ELSE IF r.dtype = "uint16"
    THEN [c \in 1..3 |-> [p \in 1..Len(img[c]) |-> ScaleUInt16(img[c][p])]]
    ELSE IF r.dtype = "int16"
    THEN [c \in 1..3 |-> [p \in 1..Len(img[c]) |-> ScaleInt16(img[c][p])]]
    ELSE IF IsFloat(r.dtype) THEN ScaleFloat(r, img)
    ELSE [c \in 1..3 |-> [p \in 1..Len(img[c]) |-> img[c][p] % UInt8Mod]]

\* np.transpose (channels, pixels) -> (pixels, channels)
Transpose(img) == [p \in 1..Len(img[1]) |-> <<img[1][p], img[2][p], img[3][p]>>]

NoImage == <<>>
RgbRaises(r) == ~BandCountOk(Len(r.bands))
process_gdal_image_to_rgb(r) ==
    Transpose(ScaleToUInt8(r, MaskNoData(r, SelectChannels(r))))

\* ------------------------------------------------------------------------
\* mask_to_polygon
\* ------------------------------------------------------------------------
\* A mask is [shape, positive, negative, sum, contours, cvError]: its array
\* shape, its numbers of positive and of negative entries, the sum of its
\* entries, the external contours cv2.findContours reports for its uint8 cast
\* (each [area, pts]) and whether the OpenCV call raises on it.
NoPolygon == <<>>

Squeeze(shape) == SelectSeq(shape, LAMBDA d : d # 1)

NormalizedShape(mask) ==
    IF Len(mask.shape) > 2 THEN Squeeze(mask.shape) ELSE mask.shape

\* the early "return None" of lines 321-322
EarlyAbsentMut(mask) == mask.sum = 0
EarlyAbsent(mask) == Len(NormalizedShape(mask)) # 2 \/ mask.sum = 0

\* max(contours, key=cv2.contourArea): the first contour of maximal area
LargestContourMut(contours) ==
    LET best == CHOOSE i \in 1..Len(contours) :
                    /\ \A j \in 1..Len(contours) : contours[j].area <= contours[i].area
                    /\ \A j \in (i + 1)..Len(contours) : contours[j].area < contours[i].area
    IN  contours[best]
LargestContour(contours) ==
    LET best == CHOOSE i \in 1..Len(contours) :
                    /\ \A j \in 1..Len(contours) : contours[j].area <= contours[i].area
                    /\ \A j \in 1..(i - 1) : contours[j].area < contours[i].area
    IN  contours[best]

\* pixel index -> pixel centre, in half-pixel units
PixelCentre(pt) == <<2 * pt[1] + 1, 2 * pt[2] + 1>>

CloseRing(polygon) ==
    IF Len(polygon) >= 3 /\ polygon[1] # polygon[Len(polygon)]
    THEN Append(polygon, polygon[1])
    ELSE polygon

MaskToPolygonRaises(mask) == ~EarlyAbsent(mask) /\ mask.cvError

mask_to_polygon(mask) ==
    IF EarlyAbsent(mask) THEN NoPolygon
    ELSE IF mask.contours = <<>> THEN NoPolygon
    ELSE LET largest_contour == LargestContour(mask.contours)
         IN  IF Len(largest_contour.pts) <= MinContourLen THEN NoPolygon
             ELSE LET polygon == CloseRing([k \in 1..Len(largest_contour.pts) |->
                                              PixelCentre(largest_contour.pts[k])])
                  IN  IF Len(polygon) >= 3 THEN polygon ELSE NoPolygon

\* ------------------------------------------------------------------------
\* detect_to_feature (server_utils; exercised by test_server_utils.py)
\* ------------------------------------------------------------------------
PointGeometry == [type |-> "Point", coordinates |-> <<0, 0>>]
PolygonGeometry(ring) == [type |-> "Polygon", coordinates |-> <<ring>>]

\* token_hex(n): a fresh string of 2n hexadecimal characters
TokenHex(nbytes) == [chars |-> 2 * nbytes, alphabet |-> "hex"]

\* the defaults of detection_score (1.0, in hundredths) and detection_type
DefaultScore == 100
DefaultType == "sample_object"

detect_to_featureMut(bbox, polygon, score, detection_type) ==
    [type |-> "Feature",
     geometry |-> "null",
     id |-> TokenHex(16),
     properties |->
        [imageBBox |-> bbox,
         imageGeometry |-> PointGeometry,
         featureClasses |-> <<[iri |-> DefaultType, score |-> score]>>,
         image_id |-> TokenHex(16)]]
detect_to_feature(bbox, polygon, score, detection_type) ==
    [type |-> "Feature",
     geometry |-> "null",
     id |-> TokenHex(16),
     properties |->
        [imageBBox |-> bbox,
         imageGeometry |-> IF polygon = NoPolygon THEN PointGeometry
                           ELSE PolygonGeometry(polygon),
         featureClasses |-> <<[iri |-> detection_type, score |-> score]>>,
         image_id |-> TokenHex(16)]]

\* ------------------------------------------------------------------------
\* sam3_outputs_to_geojson
\* ------------------------------------------------------------------------
\* The masks tensor is [shape, data]: for rank 3 data is the sequence of N masks,
\* for rank 4 the sequence of N sequences of C masks, for rank 2 the one mask in
\* a sequence of one, and nothing for the ranks the function rejects.
Ndim(t) == Len(t.shape)

EmptyCollection == [type |-> "FeatureCollection", features |-> <<>>]
NoResult == [type |-> "None", features |-> <<>>]

\* line 364: the salvage of a rank-4 tensor whose second dimension is not 1
\* is attempted only when the last two dimensions are equal
SalvageableMut(shape) == TRUE
Salvageable(shape) == shape[3] = shape[4]

\* line 367: masks.unsqueeze(0)
UnsqueezeMut(m) == m
Unsqueeze(m) == [shape |-> <<1>> \o m.shape, data |-> m.data]

\* lines 360 and 365: masks.squeeze(1) resp. masks[:, 0, :, :]
FirstChannel(m) ==
    [shape |-> <<m.shape[1], m.shape[3], m.shape[4]>>,
     data |-> [i \in 1..Len(m.data) |-> m.data[i][1]]]

\* lines 357-375: [err, masks]
Reconcile(m) ==
    LET adjusted ==
            IF Ndim(m) = 4
            THEN IF m.shape[2] = 1 THEN FirstChannel(m)
                 ELSE IF Salvageable(m.shape) THEN FirstChannel(m)
                 ELSE m
            ELSE IF Ndim(m) = 2
            THEN Unsqueeze(m)
            ELSE m
    IN  IF Ndim(m) \notin {2, 3, 4} THEN [err |-> "ValueError", masks |-> m]
        ELSE IF Ndim(adjusted) # 3 THEN [err |-> "ValueError", masks |-> adjusted]
        ELSE [err |-> "None", masks |-> adjusted]

\* t[keep] for a sequence t and a boolean vector keep of the same length
BoolIndex(t, keep) ==
    LET idx == SelectSeq([i \in 1..Len(t) |-> i], LAMBDA i : keep[i])
    IN  [k \in 1..Len(idx) |-> t[idx[k]]]

MasksBoolIndex(m, keep) ==
    LET kept == BoolIndex(m.data, keep)
    IN  [shape |-> <<Len(kept), m.shape[2], m.shape[3]>>, data |-> kept]

\* non_empty_mask = masks.sum(dim=(1, 2)) > 0
NonEmptyMask(m) == [i \in 1..Len(m.data) |-> m.data[i].sum > 0]

\* lines 380-381: the keep decision reads the masks, never the scores
KeepMaskMut(m, s) ==
    [i \in 1..Len(m.data) |-> m.data[i].sum > 0 /\ (i <= Len(s) => s[i] > 0)]
KeepMask(m, s) == NonEmptyMask(m)

\* line 395: nothing survived the filter
ShortCircuitMut(n) == FALSE
ShortCircuit(n) == n = 0

FilterSteps == {"sums", "masks", "boxes", "scores"}

\* lines 379-399, the try block of the on-device filter. fault names the step
\* at which the device raises ("none": no operational failure). The result is
\* the tensors and num_detections the block leaves behind, whether the except
\* clause was entered, and whether the block returned the empty collection.
FilterBlock(m, b, s, n, fault) ==
    LET keep == KeepMask(m, s)
        st0 == [masks |-> m, boxes |-> b, scores |-> s, n |-> n]
        st1 == [st0 EXCEPT !.masks = MasksBoolIndex(m, keep)]
        st2 == [st1 EXCEPT !.boxes = BoolIndex(b, keep)]
        st3 == [st2 EXCEPT !.scores = BoolIndex(s, keep),
                           !.n = Len(BoolIndex(s, keep))]
        Caught(st, why) == [st |-> st, caught |-> TRUE, why |-> why, empty |-> FALSE]
        Passed(st) == [st |-> st, caught |-> FALSE, why |-> "None", empty |-> ShortCircuit(st.n)]
    IN  IF fault = "sums" THEN Caught(st0, "device")
        ELSE IF Len(keep) # n THEN Caught(st0, "mismatch")
        ELSE IF \E i \in 1..Len(keep) : keep[i]
        THEN IF fault = "masks" THEN Caught(st0, "device")
             ELSE IF fault = "boxes" \/ Len(b) # Len(keep) THEN Caught(st1, "device")
             ELSE IF fault = "scores" THEN Caught(st2, "device")
             ELSE Passed(st3)
        ELSE Passed([st0 EXCEPT !.n = 0])

\* list(executor.map(mask_to_polygon, masks_numpy)): results in submission order
PoolResultsMut(ms, order) == [k \in 1..Len(order) |-> mask_to_polygon(ms[order[k]])]
PoolResults(ms, order) == [i \in 1..Len(ms) |-> mask_to_polygon(ms[i])]

\* how a pooled mask_to_polygon call ends: an exception stays in its future
TaskOutcomeMut(mask) == "done"
TaskOutcome(mask) == IF MaskToPolygonRaises(mask) THEN "failed" ELSE "done"

\* [mask_to_polygon(masks_numpy[i]) for i in range(num_detections)]: the first
\* index at which the comprehension raises, 0 if none
SequentialFailure(ms, n) ==
    LET bad == {i \in 1..n : i > Len(ms) \/ MaskToPolygonRaises(ms[i])}
    IN  IF bad = {} THEN 0 ELSE SetMin(bad)

\* lines 421-435: does the assembly loop run off the end of a list
AssemblyIndexError(bl, sl, ps, n) == n > Len(bl) \/ n > Len(sl) \/ n > Len(ps)

BuildFeaturesMut(bl, sl, ps, n, detection_type) ==
    LET present == SelectSeq([i \in 1..n |-> i], LAMBDA i : ps[i] # NoPolygon)
    IN  [k \in 1..Len(present) |->
            detect_to_feature(bl[present[k]], ps[present[k]], sl[present[k]],
                              detection_type)]
BuildFeatures(bl, sl, ps, n, detection_type) ==
    [i \in 1..n |-> detect_to_feature(bl[i], ps[i], sl[i], detection_type)]

\* ------------------------------------------------------------------------
\* Inputs
\* ------------------------------------------------------------------------
DTypes == {"uint8", "uint16", "int16", "float32", "float64", "int32"}

\* pixel values per dtype (floats in units of 1/FScale: 0.5 and 2.0)
PixelDom(dtype) ==
    IF dtype = "uint8" THEN {7, 255}
    ELSE IF dtype = "uint16" THEN {257, 65535}
    ELSE IF dtype = "int16" THEN {-9999, 100}
    ELSE IF dtype = "int32" THEN {-1, 300}
    ELSE {FScale \div 2, 2 * FScale}

\* pixel values of the first band: for the dtypes whose scaling depends on the
\* range of the data, the type minimum resp. -1.0 and 1.0 as well
FirstBandDom(dtype) ==
    IF dtype = "int16" THEN PixelDom(dtype) \cup {-32768, -2, -1}
    ELSE IF IsFloat(dtype) THEN {-FScale, FScale, 2 * FScale}
    ELSE PixelDom(dtype)

\* NoData sentinels per dtype (for floats 2.00001, within tolerance of 2.0)
NoDataDom(dtype) ==
    IF dtype = "uint8" THEN {NoNoData, NoData(7)}
    ELSE IF dtype = "uint16" THEN {NoNoData, NoData(65535)}
    ELSE IF dtype = "int16" THEN {NoNoData, NoData(-9999)}
    ELSE IF dtype = "int32" THEN {NoNoData, NoData(300)}
    ELSE {NoNoData, NoData(2 * FScale + 1)}

BandsOver(dom, nodatas, np) ==
    {[pix |-> f, nodata |-> nd] : f \in [1..np -> dom], nd \in nodatas}

\* bands past the third: a constant band of the largest value without a
\* sentinel, or of the smallest value with one
ExtraBands(dtype, np) ==
    {[pix |-> [p \in 1..np |-> SetMax(FirstBandDom(dtype))], nodata |-> NoNoData],
     [pix |-> [p \in 1..np |-> SetMin(FirstBandDom(dtype))],
      nodata |-> NoData(SetMin(FirstBandDom(dtype)))]}

\* the rasters of dtype d with nb bands of np pixels; the bands past the third
\* are copies of one extra band
RasterInputs(d, nb, np) ==
    {[dtype |-> d,
      bands |-> <<first>> \o rest \o [b \in 1..Max2(nb - 3, 0) |-> extra]] :
        first \in BandsOver(FirstBandDom(d), NoDataDom(d), np),
        rest \in [1..(Min2(nb, 3) - 1) -> BandsOver(PixelDom(d), NoDataDom(d), np)],
        extra \in (IF nb > 3 THEN ExtraBands(d, np) ELSE {NoNoData})}

DefaultRaster ==
    [dtype |-> "uint8", bands |-> [b \in 1..3 |-> [pix |-> <<7>>, nodata |-> NoNoData]]]
TwoBandRaster ==
    [dtype |-> "uint8", bands |-> [b \in 1..2 |-> [pix |-> <<7>>, nodata |-> NoNoData]]]

\* masks: each detection i has its own footprint, shifted by i pixels
MaskSide == MaxDet + 2
MaskKinds == {"empty", "blob", "dot", "bad"}
MaskOf(kind, i, shape) ==
    IF kind = "empty"
    THEN [shape |-> shape, positive |-> 0, negative |-> 0, sum |-> 0,
          contours |-> <<>>, cvError |-> FALSE]
    ELSE IF kind = "blob"
    THEN [shape |-> shape, positive |-> 4, negative |-> 0, sum |-> 4, cvError |-> FALSE,
          contours |-> <<[area |-> 1,
                          pts |-> <<<<i, 0>>, <<i, 1>>, <<i + 1, 1>>, <<i + 1, 0>>>>]>>]
    ELSE IF kind = "dot"
    THEN [shape |-> shape, positive |-> 1, negative |-> 0, sum |-> 1, cvError |-> FALSE,
          contours |-> <<[area |-> 0, pts |-> <<<<i, 0>>>>]>>]
    ELSE [shape |-> shape, positive |-> 1, negative |-> 0, sum |-> 1,
          contours |-> <<>>, cvError |-> TRUE]

BoxOf(i) == <<10 * i, 10 * i, 10 * i + 5, 10 * i + 5>>
\* scores in hundredths, not monotone in the detection index
ScoreOf(i) == 10 + ((i * 30) % 100)
BoxesOf(n) == [i \in 1..n |-> BoxOf(i)]
ScoresOf(n) == [i \in 1..n |-> ScoreOf(i)]
\* the lowest confidence on every detection
ZeroScoresOf(n) == [i \in 1..n |-> 0]

Square == <<MaskSide, MaskSide>>
Oblong == <<MaskSide, MaskSide + 1>>

\* (number of masks, number of boxes, number of scores): co-indexed batches and
\* batches whose arrays disagree by one
BatchSizes ==
    {<<m, b, n>> \in (0..MaxDet) \X (0..MaxDet) \X (0..MaxDet) :
        /\ m \in {n - 1, n, n + 1}
        /\ b \in {n - 1, n}
        /\ (b # n => m = n)}

Rank3Batches ==
    UNION {
        {[masks |-> [shape |-> <<sz[1]>> \o Square,
                     data |-> [i \in 1..sz[1] |-> MaskOf(ks[i], i, Square)]],
          boxes |-> BoxesOf(sz[2]), scores |-> sc] :
            ks \in [1..sz[1] -> MaskKinds],
            sc \in {ScoresOf(sz[3]), ZeroScoresOf(sz[3])}}
        : sz \in BatchSizes}

\* rank 4 [N, C, H, W]: channel 1 holds the footprint, further channels are empty
Rank4Batches ==
    {[masks |-> [shape |-> <<n, c>> \o hw,
                 data |-> [i \in 1..n |-> [k \in 1..c |->
                            MaskOf(IF k = 1 THEN "blob" ELSE "empty", i, hw)]]],
      boxes |-> BoxesOf(n), scores |-> ScoresOf(n)] :
        n \in 1..MaxDet, c \in 1..2, hw \in {Square, Oblong}}

\* rank 2 [H, W]: a single mask without a batch dimension
Rank2Batches ==
    {[masks |-> [shape |-> Square, data |-> <<MaskOf(k, 1, Square)>>],
      boxes |-> BoxesOf(n), scores |-> ScoresOf(n)] :
        k \in {"empty", "blob"}, n \in 1..2}

\* ranks the function rejects
OtherRankBatches ==
    {[masks |-> [shape |-> sh, data |-> <<>>], boxes |-> BoxesOf(n), scores |-> ScoresOf(n)] :
        sh \in {<<>>, <<MaskSide>>, <<1, 1, 1>> \o Square}, n \in 0..1}

\* the rank-4 batch of three detections with two 64 x 64 channels each
ScenarioShape == <<3, 2, 64, 64>>
ScenarioBatch ==
    [masks |-> [shape |-> ScenarioShape,
                data |-> [i \in 1..3 |-> [k \in 1..2 |->
                           MaskOf(IF k = 1 THEN "blob" ELSE "empty", i, <<64, 64>>)]]],
     boxes |-> BoxesOf(3), scores |-> ScoresOf(3)]

BatchInputs ==
    Rank3Batches \cup Rank4Batches \cup Rank2Batches \cup OtherRankBatches
    \cup {ScenarioBatch}

EmptyBatch ==
    [masks |-> [shape |-> <<0>> \o Square, data |-> <<>>], boxes |-> <<>>, scores |-> <<>>]

WorkerConfigs == {1, 2, 8}

\* ------------------------------------------------------------------------
\* predict
\* ------------------------------------------------------------------------
NoResponse == [status |-> 0, collection |-> NoResult]
NoArg == [fn |-> "None"]
NoCall == [done |-> FALSE, raised |-> "None", value |-> <<>>]
\* a process in which nothing has been called yet: no logging handler exists,
\* and the one uuid drawn so far is the default image_id of
\* instances_to_feature_collection, evaluated when the function was defined
ProcStart ==
    [loggerHandlers |-> <<>>, rootHandlers |-> <<>>, level |-> "NOTSET",
     handlersMade |-> 0, uuids |-> 1, image_id_default |-> 1,
     steps |-> 0, responses |-> <<>>]
TEXT_PROMPT == "objects"

\* the finally clause of predict: the file is unlinked only when a dataset was opened
Finally(ds, file) == IF ds # "None" THEN FALSE ELSE file

StartState ==
    /\ pc = "start"
    /\ vsimem = FALSE
    /\ gdal_dataset = "None"
    /\ image_array = NoImage
    /\ inferenceRuns = 0
    /\ response = NoResponse
    /\ masks = EmptyBatch.masks
    /\ boxes = <<>>
    /\ scores = <<>>
    /\ num_detections = 0
    /\ tasks = <<>>
    /\ finishOrder = <<>>
    /\ polygons = <<>>
    /\ result = NoResult
    /\ raised = "None"
    /\ syncs = 0
    /\ onHost = FALSE
    /\ log = {}

\* lines 480-491
GdalOpen ==
    /\ pc = "start"
    /\ IF parseable
       THEN /\ vsimem' = TRUE
            /\ gdal_dataset' = "open"
            /\ pc' = "opened"
            /\ UNCHANGED response
       ELSE /\ gdal_dataset' = "None"
            /\ vsimem' = Finally("None", TRUE)
            /\ response' = [status |-> 400, collection |-> NoResult]
            /\ pc' = "responded"
    /\ UNCHANGED <<inputVars, image_array, inferenceRuns, tensorVars, poolVars,
                   polygons, result, raised, syncs, onHost, log>>

\* lines 495-501
Normalize ==
    /\ pc = "opened"
    /\ IF RgbRaises(raster)
       THEN /\ response' = [status |-> 400, collection |-> NoResult]
            /\ vsimem' = Finally(gdal_dataset, vsimem)
            /\ pc' = "responded"
            /\ UNCHANGED image_array
       ELSE /\ image_array' = process_gdal_image_to_rgb(raster)
            /\ pc' = "normalized"
            /\ UNCHANGED <<response, vsimem>>
    /\ UNCHANGED <<inputVars, gdal_dataset, inferenceRuns, tensorVars, poolVars,
                   polygons, result, raised, syncs, onHost, log>>

\* lines 503-517 and 355
Infer ==
    /\ pc = "normalized"
    /\ inferenceRuns' = inferenceRuns + 1
    /\ IF inferOk
       THEN /\ masks' = output.masks
            /\ boxes' = output.boxes
            /\ scores' = output.scores
            /\ num_detections' = Len(output.scores)
            /\ pc' = "reconcile"
            /\ UNCHANGED <<response, vsimem>>
       ELSE /\ response' = [status |-> 500, collection |-> NoResult]
            /\ vsimem' = Finally(gdal_dataset, vsimem)
            /\ pc' = "responded"
            /\ UNCHANGED tensorVars
    /\ UNCHANGED <<inputVars, gdal_dataset, image_array, poolVars,
                   polygons, result, raised, syncs, onHost, log>>

\* ------------------------------------------------------------------------
\* sam3_outputs_to_geojson, step by step
\* ------------------------------------------------------------------------
\* lines 357-378
GeoReconcile ==
    /\ pc = "reconcile"
    /\ LET r == Reconcile(masks)
       IN  IF r.err # "None"
           THEN /\ raised' = r.err
                /\ pc' = "raised"
                /\ log' = log \cup {"error: unexpected mask shape"}
                /\ UNCHANGED masks
           ELSE /\ masks' = r.masks
                /\ pc' = IF DEVICE = "cuda" /\ num_detections > 0
                         THEN "filter" ELSE "transfer"
                /\ log' = IF Ndim(masks) = 4 /\ masks.shape[2] # 1
                          THEN log \cup {"warning: unexpected 4D mask shape"}
                          ELSE log
                /\ UNCHANGED raised
    /\ UNCHANGED <<inputVars, vsimem, gdal_dataset, image_array, inferenceRuns,
                   response, boxes, scores, num_detections, poolVars, polygons,
                   result, syncs, onHost>>

\* lines 379-399
GeoFilter ==
    /\ pc = "filter"
    /\ LET fb == FilterBlock(masks, boxes, scores, num_detections, filterFault)
       IN  /\ masks' = fb.st.masks
           /\ boxes' = fb.st.boxes
           /\ scores' = fb.st.scores
           /\ num_detections' = fb.st.n
           /\ log' = log \cup
                (IF fb.why = "mismatch" THEN {"error: shape mismatch"} ELSE {}) \cup
                (IF fb.caught
                 THEN {"error: GPU filtering failed", "warning: falling back to CPU"}
                 ELSE {})
           /\ IF fb.empty
              THEN /\ result' = EmptyCollection
                   /\ pc' = "returned"
              ELSE /\ pc' = "transfer"
                   /\ UNCHANGED result
    /\ UNCHANGED <<inputVars, vsimem, gdal_dataset, image_array, inferenceRuns,
                   response, poolVars, polygons, raised, syncs, onHost>>

\* lines 402-411
GeoTransfer ==
    /\ pc = "transfer"
    /\ syncs' = IF DEVICE = "cuda" THEN syncs + 1 ELSE syncs
    /\ onHost' = TRUE
    /\ pc' = "extract"
    /\ UNCHANGED <<inputVars, vsimem, gdal_dataset, image_array, inferenceRuns,
                   response, tensorVars, poolVars, polygons, result, raised, log>>

\* line 414
UsePoolMut(n) == n # PoolThreshold - 1
UsePool(n) == n > PoolThreshold

\* line 418
ExtractSequential ==
    /\ pc = "extract"
    /\ ~UsePool(num_detections)
    /\ LET f == SequentialFailure(masks.data, num_detections)
       IN  IF f = 0
           THEN /\ polygons' = [i \in 1..num_detections |-> mask_to_polygon(masks.data[i])]
                /\ pc' = "assemble"
                /\ UNCHANGED raised
           ELSE /\ raised' = IF f > Len(masks.data) THEN "IndexError" ELSE "cv2.error"
                /\ pc' = "raised"
                /\ UNCHANGED polygons
    /\ UNCHANGED <<inputVars, vsimem, gdal_dataset, image_array, inferenceRuns,
                   response, tensorVars, poolVars, result, syncs, onHost, log>>

\* lines 415-416: executor.map submits one task per mask
PoolSubmit ==
    /\ pc = "extract"
    /\ UsePool(num_detections)
    /\ tasks' = [i \in 1..Len(masks.data) |-> "queued"]
    /\ finishOrder' = <<>>
    /\ pc' = "pool"
    /\ UNCHANGED <<inputVars, vsimem, gdal_dataset, image_array, inferenceRuns,
                   response, tensorVars, polygons, result, raised, syncs, onHost, log>>

Running == {i \in 1..Len(tasks) : tasks[i] = "running"}

\* a free worker thread takes the oldest queued task
WorkerStart(i) ==
    /\ pc = "pool"
    /\ tasks[i] = "queued"
    /\ \A j \in 1..(i - 1) : tasks[j] # "queued"
    /\ Cardinality(Running) < MAX_WORKERS
    /\ tasks' = [tasks EXCEPT ![i] = "running"]
    /\ UNCHANGED <<inputVars, pc, vsimem, gdal_dataset, image_array, inferenceRuns,
                   response, tensorVars, finishOrder, polygons, result, raised,
                   syncs, onHost, log>>

\* a worker's mask_to_polygon call returns or raises
WorkerFinish(i) ==
    /\ pc \in {"pool", "shutdown"}
    /\ tasks[i] = "running"
    /\ tasks' = [tasks EXCEPT ![i] = TaskOutcome(masks.data[i])]
    /\ finishOrder' = Append(finishOrder, i)
    /\ UNCHANGED <<inputVars, pc, vsimem, gdal_dataset, image_array, inferenceRuns,
                   response, tensorVars, polygons, result, raised, syncs, onHost, log>>

\* list(...) returns once the last result of the map iterator has arrived
AllDoneMut(ts) == \E i \in 1..Len(ts) : ts[i] = "done"
AllDone(ts) == \A i \in 1..Len(ts) : ts[i] = "done"

\* list(...) has consumed every result
PoolFanIn ==
    /\ pc = "pool"
    /\ AllDone(tasks)
    /\ polygons' = PoolResults(masks.data, finishOrder)
    /\ pc' = "assemble"
    /\ UNCHANGED <<inputVars, vsimem, gdal_dataset, image_array, inferenceRuns,
                   response, tensorVars, poolVars, result, raised, syncs, onHost, log>>

\* list(...) reaches a failed future: the result iterator cancels what has not
\* started and the with block waits for the workers still running
PoolAbort ==
    /\ pc = "pool"
    /\ \E i \in 1..Len(tasks) :
            /\ tasks[i] = "failed"
            /\ \A j \in 1..(i - 1) : tasks[j] = "done"
    /\ tasks' = [i \in 1..Len(tasks) |->
                    IF tasks[i] = "queued" THEN "cancelled" ELSE tasks[i]]
    /\ pc' = "shutdown"
    /\ UNCHANGED <<inputVars, vsimem, gdal_dataset, image_array, inferenceRuns,
                   response, tensorVars, finishOrder, polygons, result, raised,
                   syncs, onHost, log>>

PoolShutdown ==
    /\ pc = "shutdown"
    /\ Running = {}
    /\ raised' = "cv2.error"
    /\ pc' = "raised"
    /\ UNCHANGED <<inputVars, vsimem, gdal_dataset, image_array, inferenceRuns,
                   response, tensorVars, poolVars, polygons, result, syncs, onHost, log>>

\* lines 421-437
Assemble ==
    /\ pc = "assemble"
    /\ IF AssemblyIndexError(boxes, scores, polygons, num_detections)
       THEN /\ raised' = "IndexError"
            /\ pc' = "raised"
            /\ UNCHANGED result
       ELSE /\ result' = [type |-> "FeatureCollection",
                          features |-> BuildFeatures(boxes, scores, polygons,
                                                     num_detections, TEXT_PROMPT)]
            /\ pc' = "returned"
            /\ UNCHANGED raised
    /\ UNCHANGED <<inputVars, vsimem, gdal_dataset, image_array, inferenceRuns,
                   response, tensorVars, poolVars, polygons, syncs, onHost, log>>

\* status of the except clause of predict, lines 526-529
ErrorStatus(exc) == 500

\* lines 522-534
Respond ==
    /\ pc \in {"returned", "raised"}
    /\ response' = IF pc = "returned"
                   THEN [status |-> 200, collection |-> result]
                   ELSE [status |-> ErrorStatus(raised), collection |-> NoResult]
    /\ vsimem' = Finally(gdal_dataset, vsimem)
    /\ pc' = "responded"
    /\ UNCHANGED <<inputVars, gdal_dataset, image_array, inferenceRuns, tensorVars,
                   poolVars, polygons, result, raised, syncs, onHost, log>>

\* ------------------------------------------------------------------------
\* Specifications
\* ------------------------------------------------------------------------
\* Spec: requests with a fixed image and every raw detection batch
Init ==
    /\ StartState
    /\ arg = NoArg /\ ret = NoCall /\ proc = ProcStart
    /\ MAX_WORKERS \in WorkerConfigs
    /\ \/ /\ parseable = TRUE /\ inferOk = TRUE
          /\ raster = DefaultRaster
          /\ output \in BatchInputs
          /\ DEVICE \in {"cuda", "cpu"}
          /\ filterFault \in (IF DEVICE = "cuda" THEN FilterSteps \cup {"none"}
                              ELSE {"none"})
       \/ /\ parseable \in BOOLEAN /\ inferOk = ~parseable
          /\ raster = DefaultRaster
          /\ output = EmptyBatch /\ DEVICE = "cpu" /\ filterFault = "none"
       \/ /\ parseable = TRUE /\ inferOk = TRUE
          /\ raster = TwoBandRaster
          /\ output = EmptyBatch /\ DEVICE = "cpu" /\ filterFault = "none"

Next ==
    \/ GdalOpen \/ Normalize \/ Infer
    \/ GeoReconcile \/ GeoFilter \/ GeoTransfer
    \/ ExtractSequential \/ PoolSubmit
    \/ \E i \in 1..Len(tasks) : WorkerStart(i)
    \/ \E i \in 1..Len(tasks) : WorkerFinish(i)
    \/ PoolFanIn \/ PoolAbort \/ PoolShutdown
    \/ Assemble \/ Respond

Spec == Init /\ [][Next]_vars

\* SpecRgb: requests with every raster, up to the hand-over to inference
InitRgb ==
    /\ StartState
    /\ arg = NoArg /\ ret = NoCall /\ proc = ProcStart
    /\ MAX_WORKERS = 1 /\ DEVICE = "cpu" /\ filterFault = "none"
    /\ output = EmptyBatch
    /\ inferOk = TRUE
    /\ \/ /\ parseable = TRUE
          /\ \E d \in DTypes, nb \in 1..MaxBands, np \in 1..MaxPix :
                raster \in RasterInputs(d, nb, np)
       \/ parseable = FALSE /\ raster = DefaultRaster

NextRgb == GdalOpen \/ Normalize \/ Infer

SpecRgb == InitRgb /\ [][NextRgb]_vars

\* ------------------------------------------------------------------------
\* Properties of sam3_outputs_to_geojson (checked under Spec)
\* ------------------------------------------------------------------------
Returned == pc \in {"returned", "responded"} /\ result.type = "FeatureCollection"

\* the raw batch after shape reconciliation, as the engine delivered it
RawMasks == Reconcile(output.masks).masks.data
RawCount == Len(output.scores)
CoIndexed == Len(RawMasks) = RawCount /\ Len(output.boxes) = RawCount

\* did the on-device filter run to completion
FilterApplied ==
    DEVICE = "cuda" /\ RawCount > 0 /\ "error: GPU filtering failed" \notin log

\* indexes of the surviving detections, in index order
SurvivorIdx ==
    IF FilterApplied
    THEN SelectSeq([i \in 1..Len(RawMasks) |-> i], LAMBDA i : RawMasks[i].sum > 0)
    ELSE [i \in 1..RawCount |-> i]

\* C1: the k-th feature of every returned collection carries the polygon of the
\* k-th surviving mask with the k-th surviving box and score, whatever the
\* order in which the workers finished.
C1_IndexOrder ==
    Returned =>
        /\ Len(result.features) = Len(SurvivorIdx)
        /\ \A k \in 1..Len(result.features) :
              result.features[k] =
                detect_to_feature(output.boxes[SurvivorIdx[k]],
                                  mask_to_polygon(RawMasks[SurvivorIdx[k]]),
                                  output.scores[SurvivorIdx[k]], TEXT_PROMPT)

\* a pooled batch of three whose workers finished out of index order and whose
\* first and last features carry different polygons
C1_Witness ==
    /\ pc = "responded" /\ response.status = 200
    /\ Len(response.collection.features) = 3
    /\ Len(finishOrder) = 3 /\ finishOrder[1] = 3
    /\ response.collection.features[1].properties.imageGeometry.type = "Polygon"
    /\ response.collection.features[3].properties.imageGeometry.type = "Polygon"

\* the mask_to_polygon calls that ran and raised
RaisedCalls ==
    {i \in Range(finishOrder) : MaskToPolygonRaises(masks.data[i])}
    \cup (IF onHost /\ pc \notin {"transfer", "extract"} /\ ~UsePool(num_detections)
          THEN {i \in 1..Min2(num_detections, Len(masks.data)) :
                    MaskToPolygonRaises(masks.data[i])}
          ELSE {})

\* C2: once a mask_to_polygon call has raised, no collection is ever returned,
\* no polygon list survives, and predict answers 500.
C2_ExtractionAtomic ==
    RaisedCalls # {} =>
        /\ result = NoResult
        /\ polygons = <<>>
        /\ pc \notin {"assemble", "returned"}
        /\ pc = "responded" => response = [status |-> 500, collection |-> NoResult]

\* one worker failed, a sibling had completed, and the request ended in 500
C2_Witness ==
    /\ pc = "responded" /\ response.status = 500
    /\ \E i, j \in 1..Len(tasks) : tasks[i] = "failed" /\ tasks[j] = "done"

\* the keep-mask of the on-device filter was computed and its length is not N
KeepMaskMismatch ==
    /\ DEVICE = "cuda" /\ RawCount > 0 /\ filterFault # "sums"
    /\ Reconcile(output.masks).err = "None"
    /\ Len(NonEmptyMask(Reconcile(output.masks).masks)) # RawCount

\* C3: a keep-mask whose length differs from N makes the call fail with a
\* ValueError that reaches the caller: no later stage processes the batch.
C3_MismatchFatal ==
    KeepMaskMismatch =>
        /\ pc \notin {"transfer", "extract", "pool", "shutdown", "assemble", "returned"}
        /\ pc \in {"raised", "responded"} => raised = "ValueError"

\* the filter block failed operationally on a co-indexed batch none of whose
\* masks makes OpenCV raise
FilterDegraded ==
    /\ DEVICE = "cuda" /\ RawCount > 0 /\ filterFault \in FilterSteps
    /\ Reconcile(output.masks).err = "None" /\ CoIndexed
    /\ \A i \in 1..Len(RawMasks) : ~RawMasks[i].cvError
    /\ "error: GPU filtering failed" \in log

\* C4: after an operational failure of the filter block the call still returns
\* a collection with one feature per original detection.
C4_FallbackCompletes ==
    (FilterDegraded /\ pc = "responded") =>
        /\ response.status = 200
        /\ Len(response.collection.features) = RawCount

\* C5: from shape reconciliation on, masks, boxes and scores have the same
\* length, and that length is num_detections.
C5_SameLength ==
    pc \in {"filter", "transfer", "extract", "pool", "shutdown", "assemble"} =>
        /\ Len(masks.data) = num_detections
        /\ Len(boxes) = num_detections
        /\ Len(scores) = num_detections

\* ------------------------------------------------------------------------
\* Properties of process_gdal_image_to_rgb (checked under SpecRgb)
\* ------------------------------------------------------------------------
Normalized == pc \in {"normalized", "reconcile"}
Pixels == 1..Len(image_array)

\* C6: every output pixel of a single-band input has R = G = B.
C6_GreyReplicated ==
    (Normalized /\ Len(raster.bands) = 1) =>
        \A p \in Pixels :
            image_array[p][1] = image_array[p][2] /\ image_array[p][2] = image_array[p][3]

\* C7: a pixel matching the NoData sentinel of its selected band is 0 in the
\* output channel of that band, for every supported dtype.
C7_NoDataIsZero ==
    (Normalized /\ raster.dtype # "int32") =>
        \A c \in 1..Min2(3, Len(raster.bands)) :
            raster.bands[c].nodata.has =>
                \A p \in Pixels :
                    NoDataMatch(raster.dtype, raster.bands[c].pix[p],
                                raster.bands[c].nodata.val)
                        => image_array[p][c] = 0

AllPixelsAre(v) ==
    \A b \in 1..Len(raster.bands) : \A p \in 1..Len(raster.bands[b].pix) :
        raster.bands[b].pix[p] = v
AllChannelsAre(v) == \A p \in Pixels : \A c \in 1..3 : image_array[p][c] = v

\* C8 as claimed: a uint16 input of all 65535 gives 255 everywhere.
C8_MaxIsWhite_Orig ==
    (Normalized /\ raster.dtype = "uint16" /\ AllPixelsAre(UInt16Max)) =>
        AllChannelsAre(UInt8Max)

\* may a pixel of value v be masked as NoData in one of the selected bands
SentinelHits(v) ==
    \E b \in 1..Min2(3, Len(raster.bands)) :
        raster.bands[b].nodata.has /\ raster.bands[b].nodata.val = v

\* C8 (amended): a uint16 input of all 65535 none of whose selected bands
\* declares 65535 as its NoData sentinel gives 255 in every channel.
C8_MaxIsWhite ==
    (Normalized /\ raster.dtype = "uint16" /\ AllPixelsAre(UInt16Max)
        /\ ~SentinelHits(UInt16Max)) =>
        AllChannelsAre(UInt8Max)

C8_Witness ==
    /\ Normalized /\ raster.dtype = "uint16" /\ AllPixelsAre(UInt16Max)
    /\ ~SentinelHits(UInt16Max) /\ Len(raster.bands) >= 3 /\ Len(image_array) >= 2
    /\ AllChannelsAre(UInt8Max)

\* the bands a fourth band is replaced by: a constant band of every pixel
\* value of the dtype, with and without a sentinel
FourthBands(dtype, np) ==
    {[pix |-> [p \in 1..np |-> v], nodata |-> nd] :
        v \in FirstBandDom(dtype) \cup PixelDom(dtype), nd \in NoDataDom(dtype)}

\* C9: for a 4-band input, replacing the fourth band by any other band leaves
\* the output unchanged.
C9_FourthBandIgnored ==
    (pc = "normalized" /\ Len(raster.bands) = 4) =>
        \A alt \in FourthBands(raster.dtype, Len(raster.bands[1].pix)) :
            LET other == [raster EXCEPT !.bands[4] = alt]
            IN  /\ ~RgbRaises(other)
                /\ process_gdal_image_to_rgb(other) = image_array

\* a 4-band float input classified as normalized whose fourth band lies
\* outside [0, 1] and declares a sentinel
C9_Witness ==
    /\ Normalized /\ Len(raster.bands) = 4 /\ IsFloat(raster.dtype)
    /\ raster.bands[4].nodata.has /\ raster.bands[4].pix[1] < 0
    /\ FloatClass(raster, MaskNoData(raster, SelectChannels(raster))) = "normalized"

\* C10: the band count is rejected exactly when it is neither 1 nor at least 3;
\* a rejected request is answered 400 without any inference run, and every
\* other band count yields an image.
C10_BandCount ==
    (parseable /\ pc \notin {"start", "opened"}) =>
        IF Len(raster.bands) = 1 \/ Len(raster.bands) >= 3
        THEN /\ image_array # NoImage
             /\ response.status # 400
        ELSE /\ pc = "responded"
             /\ response = [status |-> 400, collection |-> NoResult]
             /\ image_array = NoImage
             /\ inferenceRuns = 0

C10_Witness ==
    /\ pc = "responded" /\ Len(raster.bands) = 2
    /\ response.status = 400 /\ inferenceRuns = 0

\* ------------------------------------------------------------------------
\* Shape reconciliation and empty batches (checked under Spec)
\* ------------------------------------------------------------------------
\* sam3_outputs_to_geojson has been entered and has left shape reconciliation
PastReconcile ==
    pc \in {"filter", "transfer", "extract", "pool", "shutdown", "assemble",
            "returned", "raised"}
    \/ (pc = "responded" /\ inferenceRuns = 1 /\ inferOk)

\* the masks are still as shape reconciliation left them
JustReconciled ==
    pc = "filter" \/ (pc = "transfer" /\ (DEVICE = "cpu" \/ RawCount = 0))

Rank4Multi == Ndim(output.masks) = 4 /\ output.masks.shape[2] # 1

ShapeRejected ==
    /\ raised = "ValueError"
    /\ pc \in {"raised", "responded"}
    /\ result = NoResult
    /\ pc = "responded" => response.status = 500

FirstChannelsKept ==
    /\ masks.shape = <<output.masks.shape[1], output.masks.shape[3], output.masks.shape[4]>>
    /\ Len(masks.data) = Len(output.masks.data)
    /\ \A i \in 1..Len(masks.data) : masks.data[i] = output.masks.data[i][1]

\* C11 as claimed: masks of shape [3,2,64,64], and every rank-4 masks tensor
\* whose second dimension is not 1, make the call raise a ValueError.
C11_MultiChannelRaises_Orig ==
    (PastReconcile /\ output.masks.shape = ScenarioShape) => ShapeRejected

\* C11: a rank-4 masks tensor whose second dimension is not 1 raises a
\* ValueError exactly when its last two dimensions differ; when they are equal
\* (as in [3,2,64,64]) a warning is logged, the first channel of every detection
\* is kept and no ValueError is raised.
C11_MultiChannelSalvage ==
    (PastReconcile /\ Rank4Multi) =>
        IF output.masks.shape[3] # output.masks.shape[4]
        THEN ShapeRejected
        ELSE /\ raised # "ValueError"
             /\ "warning: unexpected 4D mask shape" \in log
             /\ JustReconciled => FirstChannelsKept

\* the [3,2,64,64] batch answered with its three features
C11_Witness ==
    /\ pc = "responded" /\ response.status = 200
    /\ output.masks.shape = ScenarioShape
    /\ Len(response.collection.features) = 3
    /\ "warning: unexpected 4D mask shape" \in log

\* C12: rank 4 with second dimension 1 drops that dimension, rank 2 gains a
\* leading dimension of 1, rank 3 is unchanged, every other rank raises a
\* ValueError, and no later stage ever sees masks that are not rank 3.
C12_RankOutcomes ==
    /\ (PastReconcile /\ Ndim(output.masks) \notin {2, 3, 4}) => ShapeRejected
    /\ (PastReconcile /\ Ndim(output.masks) \in {2, 3}) => raised # "ValueError"
    /\ (PastReconcile /\ Ndim(output.masks) = 4 /\ output.masks.shape[2] = 1) =>
            raised # "ValueError"
    /\ (JustReconciled /\ Ndim(output.masks) = 4 /\ output.masks.shape[2] = 1) =>
            FirstChannelsKept
    /\ (JustReconciled /\ Ndim(output.masks) = 2) =>
            /\ masks.shape = <<1>> \o output.masks.shape
            /\ masks.data = output.masks.data
    /\ (JustReconciled /\ Ndim(output.masks) = 3) => masks = output.masks
    /\ pc \in {"filter", "transfer", "extract", "pool", "shutdown", "assemble"} =>
            Ndim(masks) = 3

\* a rank-2 mask has become a batch of one and reached the filter
C12_Witness ==
    /\ pc = "filter" /\ Ndim(output.masks) = 2
    /\ masks.shape = <<1>> \o Square /\ Len(masks.data) = 1

\* the mask_to_polygon calls started so far: pooled tasks that left the queue,
\* and the calls of the list comprehension once it has run
PooledCalls ==
    Cardinality({i \in 1..Len(tasks) : tasks[i] \in {"running", "done", "failed"}})
SequentialCalls ==
    IF onHost /\ pc # "extract" /\ ~UsePool(num_detections)
    THEN LET f == SequentialFailure(masks.data, num_detections)
         IN  IF f = 0 THEN num_detections ELSE Min2(f, Len(masks.data))
    ELSE 0
ExtractionCalls == PooledCalls + SequentialCalls

ZeroDetections == RawCount = 0 /\ PastReconcile

ReturnsEmpty ==
    /\ raised = "None"
    /\ pc \notin {"filter", "pool", "shutdown", "raised"}
    /\ tasks = <<>> /\ ExtractionCalls = 0
    /\ pc \in {"returned", "responded"} => result = EmptyCollection
    /\ pc = "responded" => response = [status |-> 200, collection |-> EmptyCollection]

\* C13 as claimed: every raw batch without scores yields exactly the empty
\* collection, raises nothing and starts no mask_to_polygon call.
C13_NoDetections_Orig == ZeroDetections => ReturnsEmpty

\* C13: every raw batch without scores whose masks tensor passes shape
\* reconciliation yields exactly the empty collection, on either device,
\* raises nothing and starts no mask_to_polygon call, pooled or sequential.
C13_NoDetections ==
    (ZeroDetections /\ Reconcile(output.masks).err = "None") => ReturnsEmpty

\* a batch without scores whose masks tensor still holds a mask was answered
C13_Witness ==
    /\ pc = "responded" /\ RawCount = 0 /\ inferenceRuns = 1
    /\ Len(output.masks.data) = 1
    /\ response = [status |-> 200, collection |-> EmptyCollection]

\* the on-device filter reached its keep decision and kept nothing
NothingSurvives ==
    /\ DEVICE = "cuda" /\ RawCount > 0 /\ filterFault # "sums"
    /\ Reconcile(output.masks).err = "None"
    /\ Len(RawMasks) = RawCount
    /\ \A i \in 1..Len(RawMasks) : RawMasks[i].sum = 0

\* C14: when the on-device filter keeps no detection the empty collection is
\* returned at once: no synchronisation, no transfer to the host and no
\* mask_to_polygon call follows the keep decision.
C14_ShortCircuit ==
    (NothingSurvives /\ PastReconcile /\ pc # "filter") =>
        /\ pc \in {"returned", "responded"}
        /\ result = EmptyCollection
        /\ syncs = 0 /\ ~onHost
        /\ tasks = <<>> /\ polygons = <<>> /\ ExtractionCalls = 0
        /\ pc = "responded" => response = [status |-> 200, collection |-> EmptyCollection]

\* three empty masks were filtered on the device and the request was answered
C14_Witness ==
    /\ pc = "responded" /\ NothingSurvives /\ RawCount = 3
    /\ response.collection = EmptyCollection /\ syncs = 0

\* detections of the raw batch that have a non-empty mask
NonEmptyDetections ==
    {i \in 1..RawCount : i <= Len(RawMasks) /\ RawMasks[i].sum > 0}

HasFeature(i) ==
    \E k \in 1..Len(result.features) :
        /\ result.features[k].properties.imageBBox = output.boxes[i]
        /\ result.features[k].properties.featureClasses[1].score = output.scores[i]

\* C15: a returned collection never has more features than the batch had
\* scores; every detection with a non-empty mask has its feature whatever its
\* score, and without on-device filtering nothing is dropped at all.
C15_OnlyEmptyDropped ==
    Returned =>
        /\ Len(result.features) <= RawCount
        /\ \A i \in NonEmptyDetections : HasFeature(i)
        /\ ~FilterApplied => Len(result.features) = RawCount

\* the filter dropped a detection and kept one whose score is the lowest possible
C15_Witness ==
    /\ Returned /\ FilterApplied
    /\ 0 < Len(result.features) /\ Len(result.features) < RawCount
    /\ \E k \in 1..Len(result.features) :
            result.features[k].properties.featureClasses[1].score = 0

\* ------------------------------------------------------------------------
\* Direct calls: mask_to_polygon
\* ------------------------------------------------------------------------
\* array shapes of rank 0..MaxRank with dimensions 1 and 2
ShapesOfRank(r) == [1..r -> {1, 2}]
AllShapes == UNION {ShapesOfRank(r) : r \in 0..MaxRank}

\* the first k points of a fixed outline, closed on request
Outline == <<<<0, 0>>, <<0, 2>>, <<2, 2>>, <<2, 0>>, <<1, 0>>, <<1, 1>>>>
PtsOf(k, closed) ==
    IF closed THEN SubSeq(Outline, 1, k - 1) \o <<Outline[1]>> ELSE SubSeq(Outline, 1, k)

ContourDom ==
    {[area |-> a, pts |-> PtsOf(k, FALSE)] : a \in 0..2, k \in {1, 3, 4, 5}}
    \cup {[area |-> a, pts |-> PtsOf(4, TRUE)] : a \in 0..2}

ContourLists == UNION {[1..n -> ContourDom] : n \in 1..MaxContours}

\* number of entries of an array of the given shape
RECURSIVE Size(_)
Size(sh) == IF sh = <<>> THEN 1 ELSE Head(sh) * Size(Tail(sh))

\* what findContours reports for an h x w image all of whose pixels are set:
\* one contour through its corner pixels
FullOutline(sh) ==
    LET h == sh[1]
        w == sh[2]
        corners == <<<<0, 0>>, <<0, h - 1>>, <<w - 1, h - 1>>, <<w - 1, 0>>>>
        fresh == SelectSeq([k \in 1..4 |-> k],
                           LAMBDA k : \A l \in 1..(k - 1) : corners[l] # corners[k])
    IN  <<[area |-> (h - 1) * (w - 1), pts |-> [k \in 1..Len(fresh) |-> corners[fresh[k]]]]>>

ContoursOfFull(sh) ==
    LET n == NormalizedShape([shape |-> sh])
    IN  IF Len(n) = 2 THEN FullOutline(n) ELSE <<>>

\* masks by content: all entries 0; all entries 1; all entries -1 (255 after
\* the uint8 cast); one entry 1 and one entry -1 among zeros, so that the sum
\* is 0 (its contours are never read: the sum test returns first);
\* all entries 0.5 (0 after the uint8 cast; the sum is kept in halves)
ContentKinds == {"zero", "binary", "negative", "cancel", "fractional"}
MaskOfContent(kind, shape, cv) ==
    IF kind = "zero"
    THEN [shape |-> shape, positive |-> 0, negative |-> 0, sum |-> 0,
          contours |-> <<>>, cvError |-> cv]
    ELSE IF kind = "binary"
    THEN [shape |-> shape, positive |-> Size(shape), negative |-> 0,
          sum |-> Size(shape), contours |-> ContoursOfFull(shape), cvError |-> cv]
    ELSE IF kind = "negative"
    THEN [shape |-> shape, positive |-> 0, negative |-> Size(shape),
          sum |-> -Size(shape), contours |-> ContoursOfFull(shape), cvError |-> cv]
    ELSE IF kind = "cancel"
    THEN [shape |-> shape, positive |-> 1, negative |-> 1, sum |-> 0,
          contours |-> ContoursOfFull(shape), cvError |-> cv]
    ELSE [shape |-> shape, positive |-> Size(shape), negative |-> 0,
          sum |-> Size(shape), contours |-> <<>>, cvError |-> cv]

\* OpenCV accepts every two-dimensional uint8 image; what it does with an array
\* of another rank is left open. The masks with a given list of contours are
\* MaskSide x MaskSide images.
MaskInputs ==
    UNION {{MaskOfContent(kind, sh, cv) :
                kind \in {k \in ContentKinds : k = "cancel" => Size(sh) >= 3},
                cv \in (IF Len(NormalizedShape([shape |-> sh])) = 2
                        THEN {FALSE} ELSE BOOLEAN)}
           : sh \in AllShapes}
    \cup {[shape |-> Square, positive |-> 2 * Len(cl), negative |-> 0,
           sum |-> 2 * Len(cl), contours |-> cl, cvError |-> FALSE] :
                cl \in ContourLists}
    \cup {MaskOf("bad", 1, Square)}

MaskToPolygonArgs == {[fn |-> "mask_to_polygon", mask |-> m] : m \in MaskInputs}

Called(fn) == arg.fn = fn /\ ret.done

MaskToPolygonCall ==
    /\ arg.fn = "mask_to_polygon" /\ ~ret.done
    /\ ret' = IF MaskToPolygonRaises(arg.mask)
              THEN [done |-> TRUE, raised |-> "cv2.error", value |-> NoPolygon]
              ELSE [done |-> TRUE, raised |-> "None", value |-> mask_to_polygon(arg.mask)]
    /\ UNCHANGED <<parseable, raster, DEVICE, MAX_WORKERS, output, inferOk,
                   filterFault, arg, proc, pc, vsimem, gdal_dataset, image_array,
                   inferenceRuns, response, tensorVars, poolVars, polygons, result,
                   raised, syncs, onHost, log>>

\* ------------------------------------------------------------------------
\* Direct calls: detect_to_feature
\* ------------------------------------------------------------------------
\* a call names the bounding box and any of mask, score and type
TestRing == <<<<0, 0>>, <<20, 0>>, <<20, 20>>, <<0, 20>>>>
DetectToFeatureArgs ==
    {[fn |-> "detect_to_feature", bbox |-> bb, given |-> gv,
      mask |-> TestRing, score |-> sc, type |-> ty] :
        bb \in {<<10, 20, 30, 40>>, <<100, 100, 200, 200>>},
        gv \in SUBSET {"mask", "score", "type"},
        sc \in {0, 85}, ty \in {"object", "test_object"}}

DetectToFeatureCall ==
    /\ arg.fn = "detect_to_feature" /\ ~ret.done
    /\ ret' = [done |-> TRUE, raised |-> "None",
               value |-> detect_to_feature(
                            arg.bbox,
                            IF "mask" \in arg.given THEN arg.mask ELSE NoPolygon,
                            IF "score" \in arg.given THEN arg.score ELSE DefaultScore,
                            IF "type" \in arg.given THEN arg.type ELSE DefaultType)]
    /\ UNCHANGED <<parseable, raster, DEVICE, MAX_WORKERS, output, inferOk,
                   filterFault, arg, proc, pc, vsimem, gdal_dataset, image_array,
                   inferenceRuns, response, tensorVars, poolVars, polygons, result,
                   raised, syncs, onHost, log>>

\* ------------------------------------------------------------------------
\* Direct calls: trigger_behavior_by_color (failure model)
\* ------------------------------------------------------------------------
HighLevel == 200
LowLevel == 50
TimeoutSleep == 5

IsHighMut(v) == v >= HighLevel
IsHigh(v) == v > HighLevel
IsLow(v) == v < LowLevel

\* a response body: its text when it is not JSON, else the keys and the
\* features of the object it parses to
TextBody(t) == [parses |-> FALSE, text |-> t, keys |-> {}, features |-> <<>>]
JsonBody(ks, fs) == [parses |-> TRUE, text |-> "", keys |-> ks, features |-> fs]

\* '{"type": "FeatureCollection", "features": [invalid}' is not JSON
MalformedBody == TextBody("{\"type\": \"FeatureCollection\", \"features\": [invalid}")

FailureBBox == <<100, 100, 200, 200>>

trigger_behavior_by_color(color) ==
    LET r == color[1]
        g == color[2]
        b == color[3]
    IN  IF IsHigh(r) /\ IsLow(g) /\ IsLow(b)
        THEN [status |-> 500, body |-> TextBody("Unable to process request."), slept |-> 0]
        ELSE IF IsHigh(g) /\ IsLow(r) /\ IsLow(b)
        THEN [status |-> 200, body |-> MalformedBody, slept |-> 0]
        ELSE IF IsHigh(r) /\ IsHigh(b) /\ IsLow(g)
        THEN [status |-> 200, body |-> JsonBody({"type", "invalid_key"}, <<>>), slept |-> 0]
        ELSE IF IsHigh(b) /\ IsLow(r) /\ IsLow(g)
        THEN [status |-> 408, body |-> TextBody("Request timeout"), slept |-> TimeoutSleep]
        ELSE [status |-> 200, slept |-> 0,
              body |-> JsonBody({"type", "features"},
                                <<detect_to_feature(FailureBBox, NoPolygon,
                                                    DefaultScore, "test_object")>>)]

\* the levels on either side of both thresholds
ColorDom == {0, LowLevel - 1, LowLevel, HighLevel, HighLevel + 1, UInt8Max}
TriggerArgs ==
    {[fn |-> "trigger_behavior_by_color", color |-> <<r, g, b>>] :
        r \in ColorDom, g \in ColorDom, b \in ColorDom}

TriggerBehaviorCall ==
    /\ arg.fn = "trigger_behavior_by_color" /\ ~ret.done
    /\ ret' = [done |-> TRUE, raised |-> "None",
               value |-> trigger_behavior_by_color(arg.color)]
    /\ UNCHANGED <<parseable, raster, DEVICE, MAX_WORKERS, output, inferOk,
                   filterFault, arg, proc, pc, vsimem, gdal_dataset, image_array,
                   inferenceRuns, response, tensorVars, poolVars, polygons, result,
                   raised, syncs, onHost, log>>

\* ------------------------------------------------------------------------
\* Environment settings and int()
\* ------------------------------------------------------------------------
\* a setting is unset or a text, given as its sequence of characters
Unset == [set |-> FALSE, text |-> <<>>]
Setting(chars) == [set |-> TRUE, text |-> chars]

Digits == <<"0", "1", "2", "3", "4", "5", "6", "7", "8", "9">>
DigitValue(c) == (CHOOSE k \in 1..10 : Digits[k] = c) - 1
IsDigit(c) == \E k \in 1..10 : Digits[k] = c

RECURSIVE Strip(_)
Strip(t) ==
    IF t # <<>> /\ Head(t) = " " THEN Strip(Tail(t))
    ELSE IF t # <<>> /\ t[Len(t)] = " " THEN Strip(SubSeq(t, 1, Len(t) - 1))
    ELSE t

RECURSIVE DecimalValue(_)
DecimalValue(t) ==
    IF t = <<>> THEN 0 ELSE 10 * DecimalValue(SubSeq(t, 1, Len(t) - 1)) + DigitValue(t[Len(t)])

\* int(text): surrounding blanks and one sign are accepted, anything else but
\* decimal digits raises ValueError
ParseInt(text) ==
    LET t == Strip(text)
        signed == t # <<>> /\ Head(t) \in {"-", "+"}
        body == IF signed THEN Tail(t) ELSE t
    IN  IF body = <<>> \/ \E k \in 1..Len(body) : ~IsDigit(body[k])
        THEN [ok |-> FALSE, val |-> 0]
        ELSE [ok |-> TRUE,
              val |-> IF signed /\ Head(t) = "-" THEN -DecimalValue(body)
                      ELSE DecimalValue(body)]

\* ------------------------------------------------------------------------
\* Direct calls: setup_server
\* ------------------------------------------------------------------------
DefaultPort == 8080

\* the keyword arguments of the one waitress.serve call
ServeKwargs(port) ==
    [host |-> "0.0.0.0", port |-> port, clear_untrusted_proxy_headers |-> TRUE]

\* [raised, serve]: the exception leaving setup_server and the serve calls made
setup_server(bind_to_port) ==
    IF ~bind_to_port.set
    THEN [raised |-> "None", serve |-> <<ServeKwargs(DefaultPort)>>]
    ELSE IF ParseInt(bind_to_port.text).ok
    THEN [raised |-> "None", serve |-> <<ServeKwargs(ParseInt(bind_to_port.text).val)>>]
    ELSE [raised |-> "ValueError", serve |-> <<>>]

PortSettings ==
    {Unset, Setting(<<"8", "0", "8", "0">>), Setting(<<"9", "0", "0", "1">>),
     Setting(<<" ", "8", "0">>), Setting(<<"h", "t", "t", "p">>), Setting(<<>>)}

SetupServerArgs == {[fn |-> "setup_server", env |-> e] : e \in PortSettings}

SetupServerCall ==
    /\ arg.fn = "setup_server" /\ ~ret.done
    /\ ret' = [done |-> TRUE, raised |-> setup_server(arg.env).raised,
               value |-> setup_server(arg.env).serve]
    /\ UNCHANGED <<configVars, requestVars, arg, proc>>

\* ------------------------------------------------------------------------
\* Direct calls: the MAX_WORKERS setting (module start-up of the SAM3 server)
\* ------------------------------------------------------------------------
MinWorkers == 1
WorkersCap == 8
FallbackWorkers == 4
MaxCores == 9

ClampWorkersMut(n) == Max2(n, MinWorkers)
ClampWorkers(n) == Min2(Max2(n, MinWorkers), WorkersCap)

\* lines 67-72, given MASK_POLYGON_WORKERS and multiprocessing.cpu_count()
MaxWorkersSetting(workers, cores) ==
    IF ~workers.set THEN ClampWorkers(cores)
    ELSE IF ParseInt(workers.text).ok THEN ClampWorkers(ParseInt(workers.text).val)
    ELSE FallbackWorkers

WorkerSettings ==
    {Unset, Setting(<<"0">>), Setting(<<"-", "3">>), Setting(<<"1">>), Setting(<<"6">>),
     Setting(<<"8">>), Setting(<<"9">>), Setting(<<"6", "4">>), Setting(<<"+", "2">>),
     Setting(<<"a", "l", "l">>), Setting(<<"2", ".", "5">>), Setting(<<>>)}

MaxWorkersArgs ==
    {[fn |-> "MAX_WORKERS", env |-> e, cores |-> c] :
        e \in WorkerSettings, c \in 1..MaxCores}

MaxWorkersCall ==
    /\ arg.fn = "MAX_WORKERS" /\ ~ret.done
    /\ ret' = [done |-> TRUE, raised |-> "None",
               value |-> MaxWorkersSetting(arg.env, arg.cores)]
    /\ UNCHANGED <<configVars, requestVars, arg, proc>>

\* SpecCalls: one call of one function with every argument of its domain
InitCalls ==
    /\ StartState
    /\ parseable = TRUE /\ inferOk = TRUE /\ raster = DefaultRaster
    /\ output = EmptyBatch /\ DEVICE = "cpu" /\ filterFault = "none"
    /\ MAX_WORKERS = 1
    /\ arg \in MaskToPolygonArgs \cup DetectToFeatureArgs \cup TriggerArgs
                \cup SetupServerArgs \cup MaxWorkersArgs
    /\ ret = NoCall /\ proc = ProcStart

NextCalls ==
    \/ MaskToPolygonCall \/ DetectToFeatureCall \/ TriggerBehaviorCall
    \/ SetupServerCall \/ MaxWorkersCall

SpecCalls == InitCalls /\ [][NextCalls]_vars

\* ------------------------------------------------------------------------
\* One process: build_logger and the handlers of the logging module
\* ------------------------------------------------------------------------
MaxCalls == 3

Levels == {"DEBUG", "INFO", "WARN", "ERROR"}
DefaultLevel == "WARN"

\* Logger.hasHandlers: the logger's own handlers, then those of its ancestors
HasHandlersMut(p) == p.loggerHandlers # <<>>
HasHandlers(p) == p.loggerHandlers # <<>> \/ p.rootHandlers # <<>>

\* Logger.addHandler adds a handler the logger does not hold yet
AddHandler(hs, h) == IF h \in Range(hs) THEN hs ELSE Append(hs, h)

\* the process after build_logger(level)
build_logger(p, level) ==
    IF ~HasHandlers(p)
    THEN [p EXCEPT !.loggerHandlers = AddHandler(@, p.handlersMade + 1),
                   !.rootHandlers = AddHandler(@, p.handlersMade + 1),
                   !.handlersMade = @ + 1,
                   !.level = level]
    ELSE [p EXCEPT !.level = level]

BuildLoggerArgs ==
    {[fn |-> "build_logger", given |-> TRUE, level |-> l] : l \in Levels}
        \cup {[fn |-> "build_logger", given |-> FALSE, level |-> DefaultLevel]}

Step(p) == [p EXCEPT !.steps = @ + 1]

BuildLoggerCall ==
    /\ proc.steps < MaxCalls
    /\ \E a \in BuildLoggerArgs :
        /\ arg' = a
        /\ proc' = Step(build_logger(proc, a.level))
        /\ ret' = [done |-> TRUE, raised |-> "None",
                   value |-> [hadHandlers |-> (proc.loggerHandlers # <<>>
                                                \/ proc.rootHandlers # <<>>),
                              made |-> build_logger(proc, a.level).handlersMade
                                            - proc.handlersMade]]
    /\ UNCHANGED <<configVars, requestVars>>

\* the embedding program clears both handler lists (test_server_utils.py:38-39)
ClearHandlers ==
    /\ proc.steps < MaxCalls
    /\ arg' = [fn |-> "handlers.clear"]
    /\ ret' = [done |-> TRUE, raised |-> "None", value |-> <<>>]
    /\ proc' = Step([proc EXCEPT !.loggerHandlers = <<>>, !.rootHandlers = <<>>])
    /\ UNCHANGED <<configVars, requestVars>>

\* the embedding program configures the root logger with a handler of its own
RootConfig ==
    /\ proc.steps < MaxCalls
    /\ proc.rootHandlers = <<>>
    /\ arg' = [fn |-> "logging.basicConfig"]
    /\ ret' = [done |-> TRUE, raised |-> "None", value |-> <<>>]
    /\ proc' = Step([proc EXCEPT !.rootHandlers = <<proc.handlersMade + 1>>,
                                 !.handlersMade = @ + 1])
    /\ UNCHANGED <<configVars, requestVars>>

\* ------------------------------------------------------------------------
\* One process: instances_to_feature_collection of the ship model
\* ------------------------------------------------------------------------
NoInstances == [present |-> FALSE, boxes |-> <<>>, scores |-> <<>>]
InstancesOf(n) == [present |-> TRUE, boxes |-> BoxesOf(n), scores |-> ScoresOf(n)]
ShipInstances == {NoInstances} \cup {InstancesOf(n) : n \in 0..MaxDet}

\* `if instances:` is false for None and for Instances of length 0
Truthy(instances) == instances.present /\ Len(instances.boxes) > 0

\* the value of the image_id parameter when the caller passes none
DefaultImageIdMut(p) == p.uuids + 1
DefaultImageId(p) == p.image_id_default

\* uuid.uuid4() draws a value never drawn before; the i-th feature of a call
\* made after `drawn` draws gets the next one
ShipFeature(instances, i, image_id, drawn) ==
    [type |-> "Feature",
     geometry |-> PointGeometry,
     id |-> drawn + i,
     properties |-> [bounds_imcoords |-> instances.boxes[i],
                     detection_score |-> instances.scores[i],
                     feature_types |-> [ship |-> instances.scores[i]],
                     image_id |-> image_id]]

instances_to_feature_collection(instances, image_id, drawn) ==
    [type |-> "FeatureCollection",
     features |-> IF Truthy(instances)
                  THEN [i \in 1..Len(instances.boxes) |->
                            ShipFeature(instances, i, image_id, drawn)]
                  ELSE <<>>]

\* callers either leave image_id out (predict, line 217) or pass their own,
\* which is no uuid of this process
ShipArgs ==
    {[fn |-> "instances_to_feature_collection", instances |-> inst,
      passed |-> ps, image_id |-> 0] :
        inst \in ShipInstances, ps \in BOOLEAN}

ShipCollectionCall ==
    /\ proc.steps < MaxCalls
    /\ \E a \in ShipArgs :
        LET image_id == IF a.passed THEN a.image_id ELSE DefaultImageId(proc)
            drawn == proc.uuids
            collection == instances_to_feature_collection(a.instances, image_id, drawn)
        IN  /\ arg' = a
            /\ ret' = [done |-> TRUE, raised |-> "None", value |-> collection]
            /\ proc' = Step([proc EXCEPT
                                !.uuids = drawn + Len(collection.features),
                                !.responses = Append(@, [call |-> a,
                                                         collection |-> collection])])
    /\ UNCHANGED <<configVars, requestVars>>

\* SpecProc: one server process in which the embedding program calls
\* build_logger and instances_to_feature_collection in any order
InitProc ==
    /\ StartState
    /\ parseable = TRUE /\ inferOk = TRUE /\ raster = DefaultRaster
    /\ output = EmptyBatch /\ DEVICE = "cpu" /\ filterFault = "none"
    /\ MAX_WORKERS = 1
    /\ arg = NoArg /\ ret = NoCall /\ proc = ProcStart

NextProc == BuildLoggerCall \/ ClearHandlers \/ RootConfig \/ ShipCollectionCall

SpecProc == InitProc /\ [][NextProc]_vars

\* ------------------------------------------------------------------------
\* Properties of mask_to_polygon (checked under SpecCalls)
\* ------------------------------------------------------------------------
\* rank of the argument after mask.squeeze() (applied to ranks above 2 only)
SqueezedRank ==
    IF Len(arg.mask.shape) > 2
    THEN Cardinality({i \in 1..Len(arg.mask.shape) : arg.mask.shape[i] # 1})
    ELSE Len(arg.mask.shape)

Absent == ret.raised = "None" /\ ret.value = <<>>

\* C16 as claimed: a mask without positive pixels, of any rank and dtype, and a
\* mask that is not rank 2 after squeezing, give None and never an error.
C16_EmptyIsAbsent_Orig ==
    (Called("mask_to_polygon") /\ (arg.mask.positive = 0 \/ SqueezedRank # 2)) => Absent

\* C16: a mask without positive and without negative entries, of any rank, and
\* a mask that is not rank 2 after squeezing, give None and never an error.
C16_EmptyIsAbsent ==
    (Called("mask_to_polygon")
        /\ ((arg.mask.positive = 0 /\ arg.mask.negative = 0) \/ SqueezedRank # 2)) =>
        Absent

\* a rank-4 mask with positive pixels that OpenCV would reject came back absent
C16_Witness ==
    /\ Called("mask_to_polygon") /\ Absent
    /\ Len(arg.mask.shape) = 4 /\ SqueezedRank = 4
    /\ arg.mask.positive > 0 /\ arg.mask.cvError

\* index of the first contour of maximal area
FirstLargest ==
    CHOOSE i \in 1..Len(arg.mask.contours) :
        /\ \A j \in 1..Len(arg.mask.contours) :
                arg.mask.contours[j].area <= arg.mask.contours[i].area
        /\ \A j \in 1..(i - 1) :
                arg.mask.contours[j].area < arg.mask.contours[i].area

ContoursFound ==
    /\ Called("mask_to_polygon") /\ SqueezedRank = 2 /\ arg.mask.sum # 0
    /\ ~arg.mask.cvError /\ arg.mask.contours # <<>>

\* C17: the result comes from the first contour of maximal area: absent when
\* that contour has 3 or fewer vertices, else its vertices moved to the pixel
\* centres (2x+1 half-pixels) as a ring whose first and last coordinates are
\* equal; every result is absent or has at least 3 coordinates.
C17_LargestContourRing ==
    /\ ContoursFound =>
            LET pts == arg.mask.contours[FirstLargest].pts
            IN  IF Len(pts) <= 3 THEN Absent
                ELSE /\ ret.raised = "None"
                     /\ Len(ret.value) \in {Len(pts), Len(pts) + 1}
                     /\ ret.value[1] = ret.value[Len(ret.value)]
                     /\ \A k \in 1..Len(pts) :
                            ret.value[k] = <<2 * pts[k][1] + 1, 2 * pts[k][2] + 1>>
    /\ Called("mask_to_polygon") => (ret.value = <<>> \/ Len(ret.value) >= 3)

\* two contours of equal area, the first with 3 vertices and the second with
\* 5: the result is absent
C17_Witness ==
    /\ ContoursFound /\ Absent
    /\ Len(arg.mask.contours) = 2
    /\ arg.mask.contours[1].area = arg.mask.contours[2].area
    /\ Len(arg.mask.contours[1].pts) = 3 /\ Len(arg.mask.contours[2].pts) = 5

\* ------------------------------------------------------------------------
\* Properties of the feature records
\* ------------------------------------------------------------------------
\* C18 (under Spec): every returned collection has one feature per surviving
\* detection, with that detection's box and score, and with the extracted
\* polygon as geometry or, when none was extracted, a Point at (0,0).
C18_FeaturePerSurvivor ==
    Returned =>
        /\ Len(result.features) = num_detections
        /\ \A k \in 1..Len(result.features) :
              /\ result.features[k].properties.imageBBox = boxes[k]
              /\ result.features[k].properties.featureClasses[1].score = scores[k]
              /\ result.features[k].properties.imageGeometry =
                    IF polygons[k] = <<>>
                    THEN [type |-> "Point", coordinates |-> <<0, 0>>]
                    ELSE [type |-> "Polygon", coordinates |-> <<polygons[k]>>]

\* a returned collection with a Point feature next to a Polygon feature
C18_Witness ==
    /\ Returned
    /\ \E j, k \in 1..Len(result.features) :
            /\ result.features[j].properties.imageGeometry.type = "Point"
            /\ result.features[k].properties.imageGeometry.type = "Polygon"

\* C19 (under SpecCalls): detect_to_feature returns a Feature with null
\* geometry, a 32-character hex id, the given box, a Polygon of the given mask
\* or else a Point at (0,0), one class entry with the given or default type and
\* score, and an image_id property.
C19_FeatureRecord ==
    Called("detect_to_feature") =>
        /\ ret.value.type = "Feature"
        /\ ret.value.geometry = "null"
        /\ ret.value.id = [chars |-> 32, alphabet |-> "hex"]
        /\ ret.value.properties.imageBBox = arg.bbox
        /\ ret.value.properties.imageGeometry =
              IF "mask" \in arg.given
              THEN [type |-> "Polygon", coordinates |-> <<arg.mask>>]
              ELSE [type |-> "Point", coordinates |-> <<0, 0>>]
        /\ ret.value.properties.featureClasses =
              <<[iri |-> IF "type" \in arg.given THEN arg.type ELSE "sample_object",
                 score |-> IF "score" \in arg.given THEN arg.score ELSE 100]>>
        /\ "image_id" \in DOMAIN ret.value.properties

\* a call with a mask and a type but without a score
C19_Witness ==
    /\ Called("detect_to_feature") /\ arg.given = {"mask", "type"}
    /\ ret.value.properties.imageGeometry.type = "Polygon"
    /\ ret.value.properties.featureClasses[1].score = 100

\* ------------------------------------------------------------------------
\* Properties of the failure model (checked under SpecCalls)
\* ------------------------------------------------------------------------
Red == arg.color[1] > 200 /\ arg.color[2] < 50 /\ arg.color[3] < 50
Green == arg.color[2] > 200 /\ arg.color[1] < 50 /\ arg.color[3] < 50
Purple == arg.color[1] > 200 /\ arg.color[3] > 200 /\ arg.color[2] < 50
Blue == arg.color[3] > 200 /\ arg.color[1] < 50 /\ arg.color[2] < 50

\* C20: every colour falls under at most one of the four guards, and the
\* response is 500 for red, 200 with an unparseable body for green, 200 with
\* "invalid_key" and no "features" for purple, 408 for blue, and 200 with a
\* collection of exactly one feature for every other colour; nothing but the
\* colour is read or changed.
C20_ColorBehaviour ==
    Called("trigger_behavior_by_color") =>
        /\ Cardinality({c \in {"red", "green", "purple", "blue"} :
                            \/ c = "red" /\ Red
                            \/ c = "green" /\ Green
                            \/ c = "purple" /\ Purple
                            \/ c = "blue" /\ Blue}) <= 1
        /\ Red => ret.value.status = 500
        /\ Green => ret.value.status = 200 /\ ~ret.value.body.parses
        /\ Purple => /\ ret.value.status = 200 /\ ret.value.body.parses
                     /\ "invalid_key" \in ret.value.body.keys
                     /\ "features" \notin ret.value.body.keys
        /\ Blue => ret.value.status = 408
        /\ ~(Red \/ Green \/ Purple \/ Blue) =>
                /\ ret.value.status = 200 /\ ret.value.body.parses
                /\ ret.value.body.keys = {"type", "features"}
                /\ Len(ret.value.body.features) = 1
        /\ ret.raised = "None"
        /\ pc = "start" /\ response = NoResponse /\ result = NoResult

\* purple at the edge of both thresholds
C20_Witness ==
    /\ Called("trigger_behavior_by_color") /\ arg.color = <<201, 49, 201>>
    /\ "invalid_key" \in ret.value.body.keys

\* ------------------------------------------------------------------------
\* Properties of the server start-up (checked under SpecCalls)
\* ------------------------------------------------------------------------
\* the port the claim expects for the setting
ExpectedPort ==
    IF ~arg.env.set THEN 8080
    ELSE IF arg.env.text = <<"9", "0", "0", "1">> THEN 9001
    ELSE IF arg.env.text = <<" ", "8", "0">> THEN 80
    ELSE 8080

PortUsable ==
    ~arg.env.set \/ arg.env.text \in {<<"8", "0", "8", "0">>, <<"9", "0", "0", "1">>,
                                      <<" ", "8", "0">>}

\* C21: setup_server makes exactly one serve call, with host 0.0.0.0, the port
\* of SAGEMAKER_BIND_TO_PORT (8080 when unset), threads 16, channel_timeout
\* 120, connection_limit 100 and clear_untrusted_proxy_headers.
C21_ServeArguments ==
    (Called("setup_server") /\ PortUsable) =>
        /\ Len(ret.value) = 1
        /\ ret.value[1].host = "0.0.0.0"
        /\ ret.value[1].port = ExpectedPort
        /\ ret.value[1].clear_untrusted_proxy_headers
        /\ {"threads", "channel_timeout", "connection_limit"} \subseteq DOMAIN ret.value[1]
        /\ ret.value[1].threads = 16
        /\ ret.value[1].channel_timeout = 120
        /\ ret.value[1].connection_limit = 100

SettingIsInteger ==
    arg.env.set /\ arg.env.text \in {<<"0">>, <<"-", "3">>, <<"1">>, <<"6">>, <<"8">>,
                                      <<"9">>, <<"6", "4">>, <<"+", "2">>}
SettingValue ==
    IF arg.env.text = <<"0">> THEN 0
    ELSE IF arg.env.text = <<"-", "3">> THEN -3
    ELSE IF arg.env.text = <<"1">> THEN 1
    ELSE IF arg.env.text = <<"6">> THEN 6
    ELSE IF arg.env.text = <<"8">> THEN 8
    ELSE IF arg.env.text = <<"9">> THEN 9
    ELSE IF arg.env.text = <<"6", "4">> THEN 64
    ELSE 2

Clamped(n) == IF n < 1 THEN 1 ELSE IF n > 8 THEN 8 ELSE n

\* C25 as claimed: MAX_WORKERS is the setting clamped to [1,8], and the core
\* count clamped to [1,8] when the setting is absent or not a valid integer.
C25_WorkerClamp_Orig ==
    Called("MAX_WORKERS") =>
        /\ ret.value \in 1..8
        /\ ret.value = IF SettingIsInteger THEN Clamped(SettingValue)
                       ELSE Clamped(arg.cores)

\* C25: MAX_WORKERS is always in [1,8]: the setting clamped to [1,8] when it
\* is a valid integer, the core count clamped to [1,8] when it is absent, and
\* 4 when it is present but not a valid integer.
C25_WorkerClamp ==
    Called("MAX_WORKERS") =>
        /\ ret.value \in 1..8
        /\ ret.value = IF SettingIsInteger THEN Clamped(SettingValue)
                       ELSE IF ~arg.env.set THEN Clamped(arg.cores)
                       ELSE 4

\* a setting that is not an integer, on a host with two cores
C25_Witness ==
    /\ Called("MAX_WORKERS") /\ arg.env.set /\ arg.env.text = <<"a", "l", "l">>
    /\ arg.cores = 2 /\ ret.value = 4

\* ------------------------------------------------------------------------
\* Properties of the SAM3 predict endpoint (checked under Spec)
\* ------------------------------------------------------------------------
ClientFailure == response.status \in 400..499
InternalFailure == response.status = 500

\* C22: band-count errors and mask-shape errors are answered as client-input
\* failures, extraction and other processing failures as status 500, an
\* unparseable image as status 400, and success as status 200 with the
\* collection.
C22_StatusCategories ==
    pc = "responded" =>
        /\ ~parseable => response.status = 400
        /\ (parseable /\ RgbRaises(raster)) => ClientFailure
        /\ raised = "ValueError" => ClientFailure
        /\ raised \in {"cv2.error", "IndexError"} => InternalFailure
        /\ (parseable /\ ~RgbRaises(raster) /\ ~inferOk) => InternalFailure
        /\ (raised = "None" /\ inferenceRuns = 1 /\ inferOk) =>
                response = [status |-> 200, collection |-> result]

\* what the list comprehension of line 418 gives for the masks on the host
SequentialPolygons ==
    IF SequentialFailure(masks.data, num_detections) = 0
    THEN [kind |-> "polygons",
          value |-> [i \in 1..num_detections |-> mask_to_polygon(masks.data[i])]]
    ELSE [kind |-> "raises", value |-> <<>>]

\* C24: the pool is used exactly when more than 2 detections are left after
\* filtering, and the polygons of the pooled path are those of sequential
\* extraction over the first num_detections masks.
C24_PoolEquivalence ==
    /\ pc \in {"pool", "shutdown"} => num_detections > 2
    /\ (pc = "assemble" /\ tasks = <<>>) => num_detections <= 2
    /\ (pc = "assemble" /\ tasks # <<>>) =>
            /\ num_detections > 2
            /\ SequentialPolygons = [kind |-> "polygons", value |-> polygons]

\* C26: the keep decision is taken before anything is on the host; the
\* synchronisation and the transfer are over before the first
\* mask_to_polygon call starts; no mask_to_polygon call is still running, and
\* after a fan-in every call has returned, once features are built or the
\* call has ended.
C26_StageOrder ==
    /\ pc = "filter" => (~onHost /\ syncs = 0 /\ ExtractionCalls = 0)
    /\ pc \in {"extract", "pool", "shutdown", "assemble"} =>
            (onHost /\ (DEVICE = "cuda" => syncs = 1))
    /\ ExtractionCalls > 0 => (onHost /\ (DEVICE = "cuda" => syncs = 1))
    /\ pc \in {"assemble", "returned", "raised", "responded"} => Running = {}
    /\ (pc \in {"assemble", "returned", "responded"} /\ raised = "None") =>
            AllDone(tasks)
    /\ result # NoResult => AllDone(tasks)

\* three pooled calls on two workers finished out of order after a device
\* transfer, and the fan-in has let the call go on
C26_Witness ==
    /\ pc = "assemble" /\ DEVICE = "cuda" /\ syncs = 1 /\ onHost
    /\ MAX_WORKERS = 2 /\ Len(tasks) = 3 /\ AllDone(tasks)
    /\ finishOrder[1] = 2

\* C27: when the response is returned the /vsimem file of the request has
\* been unlinked, on every path.
C27_FileUnlinked == pc = "responded" => ~vsimem

\* ------------------------------------------------------------------------
\* Float and int16 scaling (checked under SpecRgb)
\* ------------------------------------------------------------------------
\* the three selected channels after NoData masking
Selected == MaskNoData(raster, SelectChannels(raster))
JointMax == SetMax(AllValues(Selected))
JointMin == SetMin(AllValues(Selected))
JointlyNormalized == JointMax <= FScale /\ JointMin >= 0
JointlyBounded == ~JointlyNormalized /\ JointMax <= 255 * FScale /\ JointMin >= 0
ChannelConstant(c) == SeqMin(Selected[c]) = SeqMax(Selected[c])
FloatImage == image_array # NoImage /\ IsFloat(raster.dtype)

\* C28: float input is classified on the joint range of the three masked
\* channels: within [0,1] every value is multiplied by 255; otherwise within
\* [0,255] values are cast unchanged; otherwise each channel is stretched on
\* its own, minimum to 0 and maximum to 255, a constant channel to 0.
C28_FloatCases ==
    FloatImage =>
        \A c \in 1..3 : \A p \in 1..Len(image_array) :
            LET v == Selected[c][p]
                lo == SeqMin(Selected[c])
                hi == SeqMax(Selected[c])
            IN  IF JointlyNormalized THEN image_array[p][c] = (v * 255) \div FScale
                ELSE IF JointlyBounded THEN image_array[p][c] = v \div FScale
                ELSE /\ ChannelConstant(c) => image_array[p][c] = 0
                     /\ ~ChannelConstant(c) =>
                            /\ image_array[p][c] = ((v - lo) * 255) \div (hi - lo)
                            /\ v = lo => image_array[p][c] = 0
                            /\ v = hi => image_array[p][c] = 255

\* a raw float image with a stretched first channel and a constant second one
C28_Witness ==
    /\ FloatImage /\ ~JointlyNormalized /\ ~JointlyBounded
    /\ Len(image_array) = 2
    /\ ~ChannelConstant(1) /\ ChannelConstant(2) /\ Selected[2][1] > 0
    /\ {image_array[1][1], image_array[2][1]} = {0, 255}
    /\ image_array[1][2] = 0 /\ image_array[2][2] = 0

Int16Image == image_array # NoImage /\ raster.dtype = "int16"

NoRepeats(hs) == Cardinality(Range(hs)) = Len(hs)

\* C23: after any sequence of build_logger calls the logger has a handler of
\* its own or of an ancestor, its level is the level of the latest call (WARN
\* when none was given), a call made while a handler exists creates none, and
\* no handler list holds a handler twice or the logger more than one.
C23_LoggerHandlers ==
    (arg.fn = "build_logger" /\ ret.done) =>
        /\ proc.loggerHandlers # <<>> \/ proc.rootHandlers # <<>>
        /\ proc.level = IF arg.given THEN arg.level ELSE "WARN"
        /\ ret.value.hadHandlers => ret.value.made = 0
        /\ ret.value.made <= 1
        /\ NoRepeats(proc.loggerHandlers) /\ NoRepeats(proc.rootHandlers)
        /\ Len(proc.loggerHandlers) <= 1

\* a third call, after two that left one handler, sets DEBUG and adds nothing
C23_Witness ==
    /\ arg.fn = "build_logger" /\ ret.done /\ arg.given /\ arg.level = "DEBUG"
    /\ proc.steps = 3 /\ proc.handlersMade = 1
    /\ ret.value.hadHandlers /\ ret.value.made = 0
    /\ proc.loggerHandlers = <<1>> /\ proc.rootHandlers = <<1>>
    /\ proc.level = "DEBUG"

\* ------------------------------------------------------------------------
\* Properties of the ship model's feature collection (checked under SpecProc)
\* ------------------------------------------------------------------------
\* the features of every collection returned so far, as <<call, index>>
AllShipFeatures ==
    UNION {{<<k, i>> : i \in 1..Len(proc.responses[k].collection.features)} :
            k \in 1..Len(proc.responses)}
ShipFeatureAt(ki) == proc.responses[ki[1]].collection.features[ki[2]]

\* C30: a collection has one feature per box in box order, none for empty or
\* missing instances; all ids of a process are distinct; every feature made
\* without a passed image_id carries the one image_id fixed when the function
\* was defined, and the passed one otherwise.
C30_SharedImageId ==
    /\ \A k \in 1..Len(proc.responses) :
        LET r == proc.responses[k]
            n == IF r.call.instances.present THEN Len(r.call.instances.boxes) ELSE 0
        IN  /\ r.collection.type = "FeatureCollection"
            /\ Len(r.collection.features) = n
            /\ \A i \in 1..n :
                /\ r.collection.features[i].properties.bounds_imcoords = BoxOf(i)
                /\ r.collection.features[i].properties.detection_score = ScoreOf(i)
                /\ r.collection.features[i].properties.image_id =
                        IF r.call.passed THEN r.call.image_id ELSE 1
    /\ \A f, g \in AllShipFeatures :
            /\ f # g => ShipFeatureAt(f).id # ShipFeatureAt(g).id
            /\ ShipFeatureAt(f).id # ShipFeatureAt(g).properties.image_id
            /\ (~proc.responses[f[1]].call.passed /\ ~proc.responses[g[1]].call.passed) =>
                    ShipFeatureAt(f).properties.image_id =
                        ShipFeatureAt(g).properties.image_id

\* two requests answered with features of distinct ids and one image_id
C30_Witness ==
    /\ Len(proc.responses) = 2
    /\ ~proc.responses[1].call.passed /\ ~proc.responses[2].call.passed
    /\ Len(proc.responses[1].collection.features) = 2
    /\ Len(proc.responses[2].collection.features) = 1
    /\ proc.responses[1].collection.features[1].properties.image_id =
            proc.responses[2].collection.features[1].properties.image_id
    /\ proc.responses[1].collection.features[1].id #
            proc.responses[2].collection.features[1].id

============================================================================
